---- MODULE Spec2Model ----
(***************************************************************************)
(* A model of server.py, the PostgreSQL MCP server: the /mcp endpoint on   *)
(* its two transports (Server-Sent-Events and plain JSON), the tool        *)
(* dispatch, execute_query and the database it talks to.                   *)
(*                                                                         *)
(* JSON values are tagged records: [str |-> s] a string, [num |-> n] a     *)
(* number, [null |-> TRUE] null, [text |-> toks] a string that is used as  *)
(* SQL (a sequence of tokens, so that strip/upper/startswith are computed),*)
(* [obj |-> r] a mapping. A mapping r has one field per key the code ever  *)
(* reads, with Absent where the key is missing.                            *)
(***************************************************************************)
EXTENDS Integers, Sequences, FiniteSets, TLC

VARIABLES
    req,        \* per client slot: the HTTP request being served
    pc,         \* per client slot: position of the handler / generator
    http,       \* per client slot: the HTTP response (status, body) or NoResponse
    frames,     \* per client slot: the SSE frames yielded so far
    sleeps,     \* per client slot: completed asyncio.sleep(1) calls
    call,       \* per client slot: what execute_query did for this request
    db,         \* the committed rows of table t
    openConns,  \* database connections currently open
    served      \* number of requests accepted so far

vars == <<req, pc, http, frames, sleeps, call, db, openConns, served>>

\* ------------------------------------------------------------------ bounds
MaxRequests == 3

\* The client slots of the model, and the one that Spec lets send requests
\* (one request in flight at a time)
Clients == {"c1", "c2"}
Sequential == {"c1"}

\* ------------------------------------------------------------- JSON values
Absent == [absent |-> TRUE]
JNull == [null |-> TRUE]
JStr(s) == [str |-> s]
JNum(n) == [num |-> n]
JText(toks) == [text |-> toks]
JObj(r) == [obj |-> r]

IsMapping(v) == "obj" \in DOMAIN v

\* dict.get(key, default) on a value known to be a mapping
Get(d, key, default) == IF d.obj[key] = Absent THEN default ELSE d.obj[key]

EmptyParams == JObj([name |-> Absent, arguments |-> Absent])
EmptyArguments == JObj([query |-> Absent, table_name |-> Absent])

\* str(x) inside an f-string, for the values a method or a name can take
Fmt(v) ==
    IF "str" \in DOMAIN v THEN v.str
    ELSE IF "num" \in DOMAIN v THEN ToString(v.num)
    ELSE IF "null" \in DOMAIN v THEN "None"
    ELSE "?"

\* ------------------------------------------------------------ tool catalog
\* Variant: the catalog with two tools swapped
MCP_TOOLS_Reordered == <<
    [name |-> "postgres_list_tables", required |-> <<>>],
    [name |-> "postgres_query", required |-> <<"query">>],
    [name |-> "postgres_describe_table", required |-> <<"table_name">>] >>

MCP_TOOLS == <<
    [name |-> "postgres_query", required |-> <<"query">>],
    [name |-> "postgres_list_tables", required |-> <<>>],
    [name |-> "postgres_describe_table", required |-> <<"table_name">>] >>

\* ---------------------------------------------------------------- database
\* The database holds one table t(v integer primary key); Rows are the values
\* a row of t can have.
Rows == {1, 2}

IsSpace(t) == t \in {" ", "\n"}

RECURSIVE LStrip(_)
LStrip(s) == IF s # <<>> /\ IsSpace(Head(s)) THEN LStrip(Tail(s)) ELSE s

RECURSIVE RStrip(_)
RStrip(s) ==
    IF s # <<>> /\ IsSpace(s[Len(s)]) THEN RStrip(SubSeq(s, 1, Len(s) - 1)) ELSE s

\* str.strip()
Strip(s) == RStrip(LStrip(s))

UpperTok(t) ==
    CASE t = "select" -> "SELECT"
      [] t = "with" -> "WITH"
      [] t = "insert" -> "INSERT"
      [] t = "delete" -> "DELETE"
      [] t = "from" -> "FROM"
      [] t = "into" -> "INTO"
      [] t = "values" -> "VALUES"
      [] OTHER -> t

\* str.upper()
Upper(s) == [i \in 1..Len(s) |-> UpperTok(s[i])]

ReadKeywords == {"SELECT", "WITH", "SHOW", "DESCRIBE"}

\* Variant: only SELECT counts as read-like
IsReadLike_SelectOnly(q) ==
    LET u == Upper(Strip(q)) IN u # <<>> /\ Head(u) = "SELECT"

\* query.strip().upper().startswith(('SELECT', 'WITH', 'SHOW', 'DESCRIBE'))
IsReadLike(q) ==
    LET u == Upper(Strip(q)) IN u # <<>> /\ Head(u) \in ReadKeywords

\* The SQL texts the model's clients and the tool dispatch use
SqlSelect == <<"SELECT", "*", "FROM", "t">>
SqlSelectLower == <<" ", "select", "*", "from", "t", "\n">>
SqlInsert(r) == <<"INSERT", "INTO", "t", "VALUES", ToString(r)>>
SqlInsertLower(r) == <<"\n", "insert", "into", "t", "values", ToString(r)>>
SqlDelete == <<"DELETE", "FROM", "t">>
SqlWithInsert(r) == <<"WITH", "ins AS (INSERT INTO t VALUES", ToString(r),
                      "RETURNING v) SELECT v FROM ins">>
SqlWithNoResult(r) == <<"WITH", "x AS (SELECT 1) INSERT INTO t VALUES", ToString(r)>>
SqlBogus == <<"BOGUS">>

\* information_schema.columns for table t
ColumnsOfT == <<
    [column_name |-> "v", data_type |-> "integer", is_nullable |-> "NO",
     column_default |-> "None"] >>

ColumnNames == {"column_name", "data_type", "is_nullable", "column_default"}

\* The rows of t, one tuple per row, in ascending order
RECURSIVE SortedRows(_)
SortedRows(S) ==
    IF S = {} THEN <<>>
    ELSE LET m == CHOOSE x \in S : \A y \in S : x <= y IN
         <<(<<m>>)>> \o SortedRows(S \ {m})

RECURSIVE NoSpaces(_)
NoSpaces(s) ==
    IF s = <<>> THEN <<>>
    ELSE IF IsSpace(Head(s)) THEN NoSpaces(Tail(s))
    ELSE <<Head(s)>> \o NoSpaces(Tail(s))

DbError(msg) ==
    [ok |-> FALSE, err |-> msg, hasResult |-> FALSE, columns |-> <<>>,
     rows |-> <<>>, rowcount |-> -1, pending |-> {}]

DbResult(columns, rows, pending) ==
    [ok |-> TRUE, err |-> "", hasResult |-> TRUE, columns |-> columns,
     rows |-> rows, rowcount |-> Len(rows), pending |-> pending]

DbCount(n, pending) ==
    [ok |-> TRUE, err |-> "", hasResult |-> FALSE, columns |-> <<>>,
     rows |-> <<>>, rowcount |-> n, pending |-> pending]

\* The database engine running one statement inside the connection's
\* transaction, whose view of table t is `rows`. The engine ignores
\* surrounding whitespace and keyword case.
\* The engine on the normalised statement n
DbRun(n, rows) ==
    IF n = <<>> THEN DbError("can't execute an empty query")
    ELSE IF n = SqlSelect THEN DbResult(<<"v">>, SortedRows(rows), rows)
    ELSE IF n = SqlDelete THEN DbCount(Cardinality(rows), {})
    ELSE IF \E r \in Rows : n = SqlInsert(r) THEN
        LET r == CHOOSE r \in Rows : n = SqlInsert(r) IN
        IF r \in rows THEN DbError("duplicate key value violates unique constraint")
        ELSE DbCount(1, rows \cup {r})
    ELSE IF \E r \in Rows : n = SqlWithInsert(r) THEN
        LET r == CHOOSE r \in Rows : n = SqlWithInsert(r) IN
        IF r \in rows THEN DbError("duplicate key value violates unique constraint")
        ELSE DbResult(<<"v">>, <<(<<r>>)>>, rows \cup {r})
    ELSE IF \E r \in Rows : n = SqlWithNoResult(r) THEN
        LET r == CHOOSE r \in Rows : n = SqlWithNoResult(r) IN
        IF r \in rows THEN DbError("duplicate key value violates unique constraint")
        ELSE DbCount(1, rows \cup {r})
    ELSE IF /\ Len(n) = 6
            /\ n[1] = "SELECT" /\ n[2] = "table_name" /\ n[3] = "FROM"
            /\ n[4] = "information_schema.tables"
            /\ n[5] = "WHERE table_schema='public'"
            /\ n[6] = "ORDER BY table_name"
        THEN DbResult(<<"table_name">>, <<(<<"t">>)>>, rows)
    ELSE IF /\ Len(n) >= 6
            /\ n[1] = "SELECT"
            /\ \A i \in 2..(Len(n) - 4) : n[i] \in ColumnNames
            /\ n[Len(n) - 3] = "FROM information_schema.columns"
            /\ n[Len(n) - 2] = "WHERE table_name ="
            /\ n[Len(n)] = "ORDER BY ordinal_position"
        THEN LET sel == SubSeq(n, 2, Len(n) - 4)
                 found == IF n[Len(n) - 1] = "t" THEN ColumnsOfT ELSE <<>>
             IN DbResult(sel,
                         [i \in 1..Len(found) |->
                             [j \in 1..Len(sel) |-> found[i][sel[j]]]],
                         rows)
    ELSE DbError("syntax error")

DbExecute(q, rows) == DbRun(Upper(NoSpaces(q)), rows)

\* ----------------------------------------------------------- execute_query
\* What the environment does to the connection during one call: whether
\* connect, commit and rollback work.
Envs == [connect : BOOLEAN, commit : BOOLEAN, rollback : BOOLEAN]

ToolFailure(msg) == [success |-> FALSE, error |-> msg]

\* Variant: row_count counts one row too many
ReadSuccess_OffByOne(data) ==
    [success |-> TRUE, data |-> data, row_count |-> Len(data) + 1]

ReadSuccess(data) == [success |-> TRUE, data |-> data, row_count |-> Len(data)]

WriteSuccess(n) ==
    [success |-> TRUE,
     message |-> "Query executed successfully. Rows affected: " \o ToString(n),
     affected_rows |-> n]

\* dict(zip(columns, row))
ZipRow(columns, row) ==
    [k \in {columns[i] : i \in 1..Len(columns)} |->
        row[CHOOSE i \in 1..Len(columns) : columns[i] = k]]

\* The two ways a call of execute_query ends, with the committed rows it
\* leaves, the driver operations it performed and the connections it opened
\* and closed.
Returned(result, rows, ops) ==
    [raised |-> FALSE, exc |-> "", result |-> result, db |-> rows, ops |-> ops]

Raised(exc, rows, ops) ==
    [raised |-> TRUE, exc |-> exc, result |-> Absent, db |-> rows, ops |-> ops]

\* Variant: the finally block closes the cursor only
Finally_CursorOnly(ops) == ops \o <<"cursor.close">>

\* The finally block: cursor.close() and conn.close()
Finally(ops) == ops \o <<"cursor.close", "conn.close">>

\* The except block, entered with conn set: roll back, then report the error
HandleError(msg, env, rows, ops) ==
    IF env.rollback
    THEN Returned(ToolFailure(msg), rows, Finally(ops \o <<"rollback">>))
    ELSE Raised("rollback failed", rows, Finally(ops \o <<"rollback!">>))

\* Variant: the write branch reports success without conn.commit()
AfterExecute_NoCommit(query, r, env, rows) ==
    IF ~r.ok
    THEN HandleError(r.err, env, rows, <<"connect", "cursor", "execute!">>)
    ELSE IF IsReadLike(query.text)
    THEN IF ~r.hasResult
         THEN HandleError("no results to fetch", env, rows,
                          <<"connect", "cursor", "execute", "fetchall!">>)
         ELSE Returned(
                ReadSuccess([i \in 1..Len(r.rows) |-> ZipRow(r.columns, r.rows[i])]),
                rows, Finally(<<"connect", "cursor", "execute", "fetchall">>))
    ELSE Returned(WriteSuccess(r.rowcount), rows,
                  Finally(<<"connect", "cursor", "execute">>))

\* execute_query from the return of cursor.execute(query), whose outcome is r
AfterExecute(query, r, env, rows) ==
    IF ~r.ok
    THEN HandleError(r.err, env, rows, <<"connect", "cursor", "execute!">>)
    ELSE IF IsReadLike(query.text)
    THEN IF ~r.hasResult
         THEN HandleError("no results to fetch", env, rows,
                          <<"connect", "cursor", "execute", "fetchall!">>)
         ELSE Returned(
                ReadSuccess([i \in 1..Len(r.rows) |-> ZipRow(r.columns, r.rows[i])]),
                rows, Finally(<<"connect", "cursor", "execute", "fetchall">>))
    ELSE IF ~env.commit
    THEN HandleError("commit failed", env, rows,
                     <<"connect", "cursor", "execute", "commit!">>)
    ELSE Returned(WriteSuccess(r.rowcount), r.pending,
                  Finally(<<"connect", "cursor", "execute", "commit">>))

execute_query(query, env, rows) ==
    IF ~env.connect
    THEN Returned(ToolFailure("could not connect to server"), rows, <<"connect!">>)
    ELSE IF "text" \notin DOMAIN query
    THEN HandleError("argument 1 must be a string", env, rows,
                     <<"connect", "cursor", "execute!">>)
    ELSE AfterExecute(query, DbExecute(query.text, rows), env, rows)

\* ------------------------------------------------------------ tool dispatch
ListTablesSql ==
    JText(<<"SELECT", "table_name", "FROM", "information_schema.tables",
            "WHERE table_schema='public'", "ORDER BY table_name">>)

\* The f-string of the streamed transport (it starts and ends with a newline)
SseDescribeSql(table_name) ==
    JText(<<"\n", "SELECT", "column_name", "data_type", "is_nullable",
            "column_default", "FROM information_schema.columns",
            "WHERE table_name =", Fmt(table_name), "ORDER BY ordinal_position",
            "\n">>)

\* The f-string of the unary transport
UnaryDescribeSql(table_name) ==
    JText(<<"SELECT", "column_name", "data_type", "is_nullable",
            "FROM information_schema.columns",
            "WHERE table_name =", Fmt(table_name), "ORDER BY ordinal_position">>)

AttributeError == "object has no attribute 'get'"

\* Variant: the unknown-tool result without the tool's name
UnknownTool_NoName(tool_name) == ToolFailure("Unknown tool")

UnknownTool(tool_name) == ToolFailure("Unknown tool: " \o Fmt(tool_name))

\* tools/call on the streamed transport, up to the ToolResult
SseToolCall(params, env, rows) ==
    IF ~IsMapping(params) THEN Raised(AttributeError, rows, <<>>)
    ELSE
    LET tool_name == Get(params, "name", JStr(""))
        arguments == Get(params, "arguments", EmptyArguments)
    IN  IF tool_name = JStr("postgres_list_tables")
        THEN execute_query(ListTablesSql, env, rows)
        ELSE IF tool_name = JStr("postgres_describe_table")
        THEN IF ~IsMapping(arguments) THEN Raised(AttributeError, rows, <<>>)
             ELSE execute_query(
                    SseDescribeSql(Get(arguments, "table_name", JStr(""))), env, rows)
        ELSE IF tool_name = JStr("postgres_query")
        THEN IF ~IsMapping(arguments) THEN Raised(AttributeError, rows, <<>>)
             ELSE execute_query(Get(arguments, "query", JText(<<>>)), env, rows)
        ELSE Returned(UnknownTool(tool_name), rows, <<>>)

\* tools/call on the unary transport, up to the ToolResult
UnaryToolCall(params, env, rows) ==
    IF ~IsMapping(params) THEN Raised(AttributeError, rows, <<>>)
    ELSE
    LET tool_name == Get(params, "name", JStr(""))
        arguments == Get(params, "arguments", EmptyArguments)
    IN  IF tool_name = JStr("postgres_list_tables")
        THEN execute_query(ListTablesSql, env, rows)
        ELSE IF tool_name = JStr("postgres_describe_table")
        THEN IF ~IsMapping(arguments) THEN Raised(AttributeError, rows, <<>>)
             ELSE execute_query(
                    UnaryDescribeSql(Get(arguments, "table_name", JStr(""))), env, rows)
        ELSE IF tool_name = JStr("postgres_query")
        THEN IF ~IsMapping(arguments) THEN Raised(AttributeError, rows, <<>>)
             ELSE execute_query(Get(arguments, "query", JText(<<>>)), env, rows)
        ELSE Returned(UnknownTool(tool_name), rows, <<>>)

\* ---------------------------------------------------------------- envelopes
Success(id, result) == [jsonrpc |-> "2.0", id |-> id, result |-> result]

Failure(id, code, message) ==
    [jsonrpc |-> "2.0", id |-> id, error |-> [code |-> code, message |-> message]]

FailureNoId(code, message) ==
    [jsonrpc |-> "2.0", error |-> [code |-> code, message |-> message]]

ServerInfo == [name |-> "PostgreSQL MCP Server", version |-> "1.0.0"]

SseInitializeResult ==
    [protocolVersion |-> "2024-11-05", capabilities |-> {"tools"},
     serverInfo |-> ServerInfo]

UnaryInitializeResult ==
    [protocolVersion |-> "2024-11-05",
     capabilities |-> {"tools", "resources", "prompts"},
     serverInfo |-> ServerInfo]

\* json.dumps(result, default=str, indent=2): the text that encodes result
json_dumps(result) == [json |-> result]

ToolContent(result) == [content |-> <<[type |-> "text", text |-> json_dumps(result)]>>]

\* await request.json()
NoBody == [kind |-> "empty", value |-> Absent]
InvalidJson == [kind |-> "invalid", value |-> Absent]
JsonBody(v) == [kind |-> "json", value |-> v]

JsonDecodes(raw) == raw.kind = "json"

NoCall == [none |-> TRUE]

\* What one pass through the router produced: the envelope (or JNull when the
\* handler returned nothing), the HTTP status, the tool call it made and the
\* committed rows it leaves.
Reply(status, body, toolcall, rows) ==
    [status |-> status, body |-> body, call |-> toolcall, db |-> rows]

\* Variant: a raising tool call is reported as a parse error
SseCallReply_AsParseError(msg_id, out) ==
    IF out.raised
    THEN Reply(200, FailureNoId(-32700, "Parse error: Invalid JSON"), out, out.db)
    ELSE Reply(200, Success(msg_id, ToolContent(out.result)), out, out.db)

\* The frame for a tools/call whose dispatch ended as out: the result, or the
\* outer except block's -32603 when it raised
SseCallReply(msg_id, out) ==
    IF out.raised
    THEN Reply(200, FailureNoId(-32603, "Internal error: " \o out.exc), out, out.db)
    ELSE Reply(200, Success(msg_id, ToolContent(out.result)), out, out.db)

\* The JSONResponse for a tools/call whose dispatch ended as out
UnaryCallReply(msg_id, out) ==
    IF out.raised
    THEN Reply(500, FailureNoId(-32603, out.exc), out, out.db)
    ELSE Reply(200, Success(msg_id, ToolContent(out.result)), out, out.db)

\* The POST branch of sse_generator: the one envelope it yields
SseRoute(raw, env, rows) ==
    IF ~JsonDecodes(raw)
    THEN Reply(200, FailureNoId(-32700, "Parse error: Invalid JSON"), NoCall, rows)
    ELSE IF ~IsMapping(raw.value)
    THEN Reply(200, FailureNoId(-32603, "Internal error: " \o AttributeError),
               NoCall, rows)
    ELSE
    LET body == raw.value
        method == Get(body, "method", JStr(""))
        params == Get(body, "params", EmptyParams)
        msg_id == Get(body, "id", JNum(1))
    IN  IF method = JStr("initialize")
        THEN Reply(200, Success(msg_id, SseInitializeResult), NoCall, rows)
        ELSE IF method = JStr("tools/list")
        THEN Reply(200, Success(msg_id, [tools |-> MCP_TOOLS]), NoCall, rows)
        ELSE IF method = JStr("resources/list")
        THEN Reply(200, Success(msg_id, [resources |-> <<>>]), NoCall, rows)
        ELSE IF method = JStr("prompts/list")
        THEN Reply(200, Success(msg_id, [prompts |-> <<>>]), NoCall, rows)
        ELSE IF method = JStr("tools/call")
        THEN SseCallReply(msg_id, SseToolCall(params, env, rows))
        ELSE Reply(200, Failure(msg_id, -32601, "Method not found: " \o Fmt(method)),
                   NoCall, rows)

\* The unary branch of mcp_endpoint: status and body of its JSONResponse
UnaryRoute(raw, env, rows) ==
    IF ~JsonDecodes(raw)
    THEN Reply(500, FailureNoId(-32603, "Expecting value"), NoCall, rows)
    ELSE IF ~IsMapping(raw.value)
    THEN Reply(500, FailureNoId(-32603, AttributeError), NoCall, rows)
    ELSE
    LET body == raw.value
        method == Get(body, "method", JStr(""))
        params == Get(body, "params", EmptyParams)
        msg_id == Get(body, "id", JNum(1))
    IN  IF method = JStr("initialize")
        THEN Reply(200, Success(msg_id, UnaryInitializeResult), NoCall, rows)
        ELSE IF method = JStr("tools/list")
        THEN Reply(200, Success(msg_id, [tools |-> MCP_TOOLS]), NoCall, rows)
        ELSE IF method = JStr("resources/list")
        THEN Reply(200, Success(msg_id, [resources |-> <<>>]), NoCall, rows)
        ELSE IF method = JStr("prompts/list")
        THEN Reply(200, Success(msg_id, [prompts |-> <<>>]), NoCall, rows)
        ELSE IF method = JStr("tools/call")
        THEN UnaryCallReply(msg_id, UnaryToolCall(params, env, rows))
        ELSE Reply(200, JNull, NoCall, rows)

\* ------------------------------------------------------------------ inputs
Envelope(method, params, id) ==
    JObj([method |-> method, params |-> params, id |-> id])

Params(name, arguments) == JObj([name |-> name, arguments |-> arguments])

Args(query, table_name) == JObj([query |-> query, table_name |-> table_name])

Ids == {Absent, JNum(7), JStr("a")}

PlainMethods ==
    {JStr("initialize"), JStr("tools/list"), JStr("resources/list"),
     JStr("prompts/list"), JStr("nonexistent"), Absent}

Queries ==
    {SqlSelect, SqlSelectLower, SqlInsert(1), SqlInsertLower(2), SqlDelete,
     SqlWithInsert(2), SqlWithNoResult(1), SqlBogus}

ToolParams ==
    {Absent, JNull, Params(JStr("postgres_list_tables"), Absent),
     Params(JStr("bogus_tool"), Absent), Params(JNum(5), JNull),
     Params(Absent, Args(JText(SqlSelect), Absent))}
    \cup {Params(JStr("postgres_describe_table"), a) :
            a \in {Absent, JNull, Args(Absent, JStr("t")), Args(Absent, JStr("nope"))}}
    \cup {Params(JStr("postgres_query"), a) :
            a \in {Absent, JNull, Args(JNum(5), Absent)}
                  \cup {Args(JText(q), Absent) : q \in Queries}}

Bodies ==
    {NoBody, InvalidJson, JsonBody(JNull)}
    \cup {JsonBody(Envelope(m, Absent, i)) : m \in PlainMethods, i \in Ids}
    \cup {JsonBody(Envelope(JStr("tools/call"), p, i)) :
            p \in ToolParams, i \in {Absent, JNum(7)}}

Request(verb, accept, body) ==
    [path |-> "/mcp", verb |-> verb, accept |-> accept, body |-> body]

\* GET /health
HealthRequest == [path |-> "/health", verb |-> "GET", accept |-> FALSE, body |-> NoBody]

\* The requests to /mcp; accept says whether the Accept header names
\* text/event-stream
Requests ==
    {Request("OPTIONS", FALSE, NoBody)}
    \cup {Request("GET", a, b) :
            a \in BOOLEAN, b \in {NoBody, JsonBody(Envelope(JStr("tools/list"), Absent, JNum(7)))}}
    \cup {Request("POST", a, b) : a \in BOOLEAN, b \in Bodies}

\* ----------------------------------------------------------------- actions
\* The request r as the n-th request the server accepted
Numbered(r, n) ==
    [path |-> r.path, verb |-> r.verb, accept |-> r.accept, body |-> r.body,
     seq |-> n]

NoRequest == [none |-> TRUE]
NoResponse == [none |-> TRUE]

DataFrame(envelope) == [kind |-> "data", payload |-> envelope]
PingFrame == [kind |-> "comment", payload |-> [text |-> "ping"]]

\* Variant: the keep-alive loop one round short
PingCount_Short == 3 - 1

PingCount == 3

Capabilities == [jsonrpc |-> "2.0", result |-> SseInitializeResult]

\* Variant: only the Accept header selects the stream
PreferSse_AcceptOnly(r) == r.accept

\* "text/event-stream" in accept_header or request.method == "GET"
PreferSse(r) == r.accept \/ r.verb = "GET"

StreamingResponse == [status |-> 200, media |-> "text/event-stream", body |-> Absent]
JSONResponse(status, body) == [status |-> status, media |-> "application/json", body |-> body]
OptionsResponse == [status |-> 200, media |-> "", body |-> Absent]

RECURSIVE Count(_, _)
Count(ops, op) ==
    IF ops = <<>> THEN 0
    ELSE (IF Head(ops) = op THEN 1 ELSE 0) + Count(Tail(ops), op)

\* Connections a tool call leaves open: those it opened minus those it closed
Leaked(toolcall) ==
    IF toolcall = NoCall THEN 0
    ELSE Count(toolcall.ops, "connect") - Count(toolcall.ops, "conn.close")

Init ==
    /\ req = [c \in Clients |-> NoRequest]
    /\ pc = [c \in Clients |-> "idle"]
    /\ http = [c \in Clients |-> NoResponse]
    /\ frames = [c \in Clients |-> <<>>]
    /\ sleeps = [c \in Clients |-> 0]
    /\ call = [c \in Clients |-> NoCall]
    /\ db \in SUBSET Rows
    /\ openConns = 0
    /\ served = 0

\* A request reaches mcp_endpoint, which runs to its first suspension: OPTIONS
\* is answered at once, a stream is opened, or the unary branch awaits the body.
Arrive(c, r) ==
    /\ pc[c] \in {"idle", "done"}
    /\ served < MaxRequests
    /\ served' = served + 1
    /\ req' = [req EXCEPT ![c] = Numbered(r, served + 1)]
    /\ frames' = [frames EXCEPT ![c] = <<>>]
    /\ sleeps' = [sleeps EXCEPT ![c] = 0]
    /\ call' = [call EXCEPT ![c] = NoCall]
    /\ IF r.verb = "OPTIONS"
       THEN /\ http' = [http EXCEPT ![c] = OptionsResponse]
            /\ pc' = [pc EXCEPT ![c] = "done"]
       ELSE IF PreferSse(r)
       THEN /\ http' = [http EXCEPT ![c] = StreamingResponse]
            /\ pc' = [pc EXCEPT ![c] = "stream"]
       ELSE /\ http' = [http EXCEPT ![c] = NoResponse]
            /\ pc' = [pc EXCEPT ![c] = "unary"]
    /\ UNCHANGED <<db, openConns>>

\* Variant: a tool call that raises ends the generator without a frame
SsePost_DropOnFault(c, env) ==
    /\ pc[c] = "stream"
    /\ req[c].verb = "POST"
    /\ LET reply == SseRoute(req[c].body, env, db) IN
        /\ frames' = [frames EXCEPT ![c] =
                        IF reply.call # NoCall /\ reply.call.raised THEN @
                        ELSE Append(@, DataFrame(reply.body))]
        /\ call' = [call EXCEPT ![c] = reply.call]
        /\ db' = reply.db
        /\ openConns' = openConns + Leaked(reply.call)
    /\ pc' = [pc EXCEPT ![c] = "yielded"]
    /\ UNCHANGED <<req, http, sleeps, served>>

\* sse_generator for a POST: the body arrives, the router runs and the one
\* frame is yielded
SsePost(c, env) ==
    /\ pc[c] = "stream"
    /\ req[c].verb = "POST"
    /\ LET reply == SseRoute(req[c].body, env, db) IN
        /\ frames' = [frames EXCEPT ![c] = Append(@, DataFrame(reply.body))]
        /\ call' = [call EXCEPT ![c] = reply.call]
        /\ db' = reply.db
        /\ openConns' = openConns + Leaked(reply.call)
    /\ pc' = [pc EXCEPT ![c] = "yielded"]
    /\ UNCHANGED <<req, http, sleeps, served>>

\* sse_generator resumes after its last yield and returns: the stream ends
SseEnd(c) ==
    /\ pc[c] = "yielded"
    /\ pc' = [pc EXCEPT ![c] = "done"]
    /\ UNCHANGED <<req, http, frames, sleeps, call, db, openConns, served>>

\* sse_generator for a GET: the capabilities frame
SseCapabilities(c) ==
    /\ pc[c] = "stream"
    /\ req[c].verb # "POST"
    /\ frames' = [frames EXCEPT ![c] = Append(@, DataFrame(Capabilities))]
    /\ pc' = [pc EXCEPT ![c] = "sleep"]
    /\ UNCHANGED <<req, http, sleeps, call, db, openConns, served>>

\* await asyncio.sleep(1) completes
SseSleep(c) ==
    /\ pc[c] = "sleep"
    /\ sleeps' = [sleeps EXCEPT ![c] = @ + 1]
    /\ pc' = [pc EXCEPT ![c] = "ping"]
    /\ UNCHANGED <<req, http, frames, call, db, openConns, served>>

\* yield ": ping"; the loop runs range(PingCount) times, then the stream ends
SsePing(c) ==
    /\ pc[c] = "ping"
    /\ frames' = [frames EXCEPT ![c] = Append(@, PingFrame)]
    /\ pc' = [pc EXCEPT ![c] = IF sleeps[c] >= PingCount THEN "done" ELSE "sleep"]
    /\ UNCHANGED <<req, http, sleeps, call, db, openConns, served>>

\* Variant: the unary branch cannot run while a stream sleeps (a blocking
\* sleep holding the event loop)
Unary_BlockedBySleep(c, env) ==
    /\ pc[c] = "unary"
    /\ \A d \in Clients : pc[d] # "sleep"
    /\ LET reply == UnaryRoute(req[c].body, env, db) IN
        /\ http' = [http EXCEPT ![c] = JSONResponse(reply.status, reply.body)]
        /\ call' = [call EXCEPT ![c] = reply.call]
        /\ db' = reply.db
        /\ openConns' = openConns + Leaked(reply.call)
    /\ pc' = [pc EXCEPT ![c] = "done"]
    /\ UNCHANGED <<req, frames, sleeps, served>>

\* The unary branch: the body arrives, the router runs, the response is sent
Unary(c, env) ==
    /\ pc[c] = "unary"
    /\ LET reply == UnaryRoute(req[c].body, env, db) IN
        /\ http' = [http EXCEPT ![c] = JSONResponse(reply.status, reply.body)]
        /\ call' = [call EXCEPT ![c] = reply.call]
        /\ db' = reply.db
        /\ openConns' = openConns + Leaked(reply.call)
    /\ pc' = [pc EXCEPT ![c] = "done"]
    /\ UNCHANGED <<req, frames, sleeps, served>>

\* The /health handler: it has no suspension point, so it runs from arrival to
\* its response in one step: a trial connection is opened and closed
Health(c, env) ==
    /\ pc[c] \in {"idle", "done"}
    /\ served < MaxRequests
    /\ served' = served + 1
    /\ req' = [req EXCEPT ![c] = Numbered(HealthRequest, served + 1)]
    /\ frames' = [frames EXCEPT ![c] = <<>>]
    /\ sleeps' = [sleeps EXCEPT ![c] = 0]
    /\ LET trial == IF env.connect
                    THEN Returned(Absent, db, <<"connect", "conn.close">>)
                    ELSE Raised("could not connect to server", db, <<"connect!">>)
       IN /\ call' = [call EXCEPT ![c] = trial]
          /\ openConns' = openConns + Leaked(trial)
          /\ http' = [http EXCEPT ![c] =
                IF trial.raised
                THEN JSONResponse(503, [status |-> "unhealthy", error |-> trial.exc])
                ELSE JSONResponse(200, [status |-> "healthy", database |-> "connected"])]
    /\ pc' = [pc EXCEPT ![c] = "done"]
    /\ UNCHANGED db

Next ==
    \/ \E c \in Sequential, r \in Requests : Arrive(c, r)
    \/ \E c \in Sequential, env \in Envs : SsePost(c, env)
    \/ \E c \in Sequential : SseEnd(c)
    \/ \E c \in Sequential : SseCapabilities(c)
    \/ \E c \in Sequential : SseSleep(c)
    \/ \E c \in Sequential : SsePing(c)
    \/ \E c \in Sequential, env \in Envs : Unary(c, env)
    \/ \E c \in Sequential, env \in Envs : Health(c, env)

Spec == Init /\ [][Next]_vars

\* The requests of the concurrent specification
ConcRequests ==
    {Request("GET", FALSE, NoBody),
     Request("OPTIONS", FALSE, NoBody),
     Request("POST", FALSE,
        JsonBody(Envelope(JStr("tools/call"),
            Params(JStr("postgres_query"), Args(JText(SqlInsert(1)), Absent)),
            JNum(7)))),
     Request("POST", TRUE,
        JsonBody(Envelope(JStr("tools/call"),
            Params(JStr("postgres_query"), Args(JText(SqlSelect), Absent)),
            Absent))),
     Request("POST", TRUE, JsonBody(Envelope(JStr("nonexistent"), Absent, JStr("a")))),
     Request("POST", FALSE, JsonBody(Envelope(JStr("tools/list"), Absent, JNum(7))))}

\* Every client slot sends requests: the handlers interleave at their
\* suspension points
NextConc ==
    \/ \E c \in Clients, r \in ConcRequests : Arrive(c, r)
    \/ \E c \in Clients, env \in Envs : SsePost(c, env)
    \/ \E c \in Clients : SseEnd(c)
    \/ \E c \in Clients : SseCapabilities(c)
    \/ \E c \in Clients : SseSleep(c)
    \/ \E c \in Clients : SsePing(c)
    \/ \E c \in Clients, env \in Envs : Unary(c, env)
    \/ \E c \in Clients, env \in Envs : Health(c, env)

SpecConc == Init /\ [][NextConc]_vars

\* ------------------------------------------------------- reading the state
Finished(c) == pc[c] = "done"

IsMcp(c) == req[c] # NoRequest /\ req[c].path = "/mcp"

IsPost(c) == IsMcp(c) /\ req[c].verb = "POST"
IsGet(c) == IsMcp(c) /\ req[c].verb = "GET"

Streamed(c) == IsMcp(c) /\ req[c].verb # "OPTIONS" /\ PreferSse(req[c])

\* The body parsed as JSON and is a JSON object
IsEnvelope(c) == JsonDecodes(req[c].body) /\ IsMapping(req[c].body.value)

MethodOf(c) == Get(req[c].body.value, "method", JStr(""))
ParamsOf(c) == Get(req[c].body.value, "params", EmptyParams)

IsToolCall(c) == IsPost(c) /\ IsEnvelope(c) /\ MethodOf(c) = JStr("tools/call")

ToolNameOf(c) == Get(ParamsOf(c), "name", JStr(""))
ArgumentsOf(c) == Get(ParamsOf(c), "arguments", EmptyArguments)

\* What the client received for a finished POST: the first frame's payload on
\* the streamed transport, the response body on the unary one
Received(c) == IF Streamed(c) THEN frames[c][1].payload ELSE http[c].body

IsSuccessEnvelope(e) == "result" \in DOMAIN e /\ "error" \notin DOMAIN e
IsErrorEnvelope(e) == "error" \in DOMAIN e /\ "result" \notin DOMAIN e

DataFrames(c) == Cardinality({i \in 1..Len(frames[c]) : frames[c][i].kind = "data"})

RecognizedMethods ==
    {JStr("initialize"), JStr("tools/list"), JStr("resources/list"),
     JStr("prompts/list"), JStr("tools/call")}

ToolNames ==
    {JStr("postgres_query"), JStr("postgres_list_tables"),
     JStr("postgres_describe_table")}

\* ------------------------------------------------------------------ claims

\* C1: for every POST to /mcp whose body parses as a JSON object, on either
\* transport and for every method, the envelope the client receives carries
\* an id equal to the request's id, or 1 when the request has none.
C1_IdEchoed ==
    \A c \in Clients :
        (Finished(c) /\ IsPost(c) /\ IsEnvelope(c)) =>
            /\ "id" \in DOMAIN Received(c)
            /\ Received(c).id =
                 (IF req[c].body.value.obj.id = Absent
                  THEN JNum(1) ELSE req[c].body.value.obj.id)

\* C2: a request whose body fails to parse as JSON receives the error
\* envelope with code -32700 and message "Parse error: Invalid JSON", on the
\* unary transport as on the streamed one.
C2_ParseErrorEnvelope ==
    \A c \in Clients :
        (Finished(c) /\ IsPost(c) /\ ~JsonDecodes(req[c].body)) =>
            /\ IsErrorEnvelope(Received(c))
            /\ Received(c).error.code = -32700
            /\ Received(c).error.message = "Parse error: Invalid JSON"

\* C3: a request whose method is none of the five recognized ones receives
\* the error envelope with code -32601 and message "Method not found:
\* <method>", on both transports; none ends without an envelope.
C3_MethodNotFound ==
    \A c \in Clients :
        (Finished(c) /\ IsPost(c) /\ IsEnvelope(c)
            /\ MethodOf(c) \notin RecognizedMethods) =>
            /\ IsErrorEnvelope(Received(c))
            /\ Received(c).error.code = -32601
            /\ Received(c).error.message = "Method not found: " \o Fmt(MethodOf(c))

\* The case of C4: a finished tools/call whose params are a mapping and whose
\* tool name is none of the three tools
UnknownToolCall(c) ==
    /\ Finished(c) /\ IsToolCall(c)
    /\ IsMapping(ParamsOf(c))
    /\ ToolNameOf(c) \notin ToolNames

\* C4: a tools/call naming an unknown tool receives a success envelope (a
\* result, no error) whose text payload encodes the ToolResult
\* {success: false, error: "Unknown tool: <name>"}, on both transports, and
\* no database connection is opened for it.
C4_UnknownTool ==
    \A c \in Clients :
        UnknownToolCall(c) =>
            /\ IsSuccessEnvelope(Received(c))
            /\ Len(Received(c).result.content) = 1
            /\ Received(c).result.content[1].type = "text"
            /\ Received(c).result.content[1].text =
                 json_dumps([success |-> FALSE,
                             error |-> "Unknown tool: " \o Fmt(ToolNameOf(c))])
            /\ call[c] # NoCall
            /\ Count(call[c].ops, "connect") = 0
            /\ Count(call[c].ops, "connect!") = 0

C4_Witness ==
    \E c \in Clients :
        /\ UnknownToolCall(c)
        /\ Streamed(c)
        /\ ToolNameOf(c) = JStr("bogus_tool")

\* The driver operations that failed during a tool call
FailedOps == {"connect!", "execute!", "fetchall!", "commit!", "rollback!"}

DatabaseFailure(c) ==
    /\ call[c] # NoCall
    /\ \E i \in 1..Len(call[c].ops) : call[c].ops[i] \in FailedOps

\* C5: a database failure during a tools/call (a failed connect, execute,
\* commit or rollback) never surfaces as an exception or a JSON-RPC error:
\* execute_query returns a ToolResult and the client receives a success
\* envelope whose ToolResult has success false and the error message.
C5_FailureAbsorbed ==
    \A c \in Clients :
        (Finished(c) /\ IsToolCall(c) /\ DatabaseFailure(c)) =>
            /\ ~call[c].raised
            /\ IsSuccessEnvelope(Received(c))
            /\ Received(c).result.content[1].text = json_dumps(call[c].result)
            /\ call[c].result.success = FALSE
            /\ "error" \in DOMAIN call[c].result

\* The step in which client c's handler runs the router
Routes(c) == pc[c] \in {"stream", "unary"} /\ pc'[c] \in {"yielded", "done"} /\ IsPost(c)

QueryOf(c) == Get(ArgumentsOf(c), "query", JText(<<>>))

\* The tool call ended with the write-success ToolResult
WriteAck(c) ==
    /\ call[c] # NoCall
    /\ ~call[c].raised
    /\ call[c].result.success
    /\ "affected_rows" \in DOMAIN call[c].result

\* The tool call ended with the read-success ToolResult of SELECT * FROM t
SelectAck(c) ==
    /\ call[c] # NoCall
    /\ ~call[c].raised
    /\ call[c].result.success
    /\ "data" \in DOMAIN call[c].result
    /\ ToolNameOf(c) = JStr("postgres_query")
    /\ Upper(NoSpaces(QueryOf(c).text)) = SqlSelect

BareGet(c) == IsGet(c) /\ req[c].body = NoBody

IsCapabilitiesFrame(f) ==
    /\ f.kind = "data"
    /\ "id" \notin DOMAIN f.payload
    /\ "result" \in DOMAIN f.payload
    /\ "capabilities" \in DOMAIN f.payload.result

IsPingFrame(f) == f = [kind |-> "comment", payload |-> [text |-> "ping"]]

\* C7: a bare GET /mcp yields one data frame with the capabilities and no
\* id, then exactly three ping comment frames, each after one more completed
\* one-second delay, and nothing else; then the stream ends.
C7_BareGetFrames ==
    \A c \in Clients :
        BareGet(c) =>
            /\ \A i \in 1..Len(frames[c]) :
                 IF i = 1 THEN IsCapabilitiesFrame(frames[c][i])
                 ELSE IsPingFrame(frames[c][i])
            /\ pc[c] = "stream" => frames[c] = <<>>
            /\ pc[c] = "sleep" => Len(frames[c]) = 1 + sleeps[c] /\ sleeps[c] < 3
            /\ pc[c] = "ping" => Len(frames[c]) = sleeps[c] /\ sleeps[c] <= 3
            /\ pc[c] = "done" => Len(frames[c]) = 4 /\ sleeps[c] = 3
            /\ pc[c] \in {"stream", "sleep", "ping", "done"}

C7_Witness ==
    \E c \in Clients :
        /\ BareGet(c) /\ Finished(c)
        /\ Len(frames[c]) = 4
        /\ IsPingFrame(frames[c][4])

\* The case of C8: a request served as a stream that is a POST or carries a
\* body
StreamedWithBody(c) == Streamed(c) /\ (IsPost(c) \/ req[c].body # NoBody)

C9_ToolsList ==
    \A c \in Clients :
        (Finished(c) /\ IsPost(c) /\ IsEnvelope(c) /\ MethodOf(c) = JStr("tools/list")) =>
            /\ IsSuccessEnvelope(Received(c))
            /\ [i \in 1..Len(Received(c).result.tools) |->
                    Received(c).result.tools[i].name]
                 = <<"postgres_query", "postgres_list_tables",
                     "postgres_describe_table">>

C9_Witness ==
    \E c \in Clients :
        /\ Finished(c) /\ IsPost(c) /\ IsEnvelope(c)
        /\ MethodOf(c) = JStr("tools/list")
        /\ ~Streamed(c)
        /\ served > 1
        /\ Len(Received(c).result.tools) = 3

\* C10: for every tools/call envelope and the same database state, the two
\* transports run the same query and return the same ToolResult: the
\* outcome of the call is the one either transport's dispatch computes.
C10_TransportsAgree ==
    [][\A c \in Clients :
        (Routes(c) /\ IsToolCall(c)) =>
            \E env \in Envs :
                /\ call'[c] = SseToolCall(ParamsOf(c), env, db)
                /\ call'[c] = UnaryToolCall(ParamsOf(c), env, db)
      ]_vars

\* A request to /mcp other than OPTIONS that mcp_endpoint has taken up
Taken(c) == IsMcp(c) /\ req[c].verb # "OPTIONS" /\ pc[c] # "idle"

ServedAsStream(c) == http[c] = [status |-> 200, media |-> "text/event-stream", body |-> Absent]

\* C11 as stated: a request is served as a stream exactly if its Accept
\* header includes text/event-stream or it carries no body; so a request
\* without a body is never on the unary path and a request with a body that
\* does not advertise event-stream is never streamed.
C11_StreamIffAcceptOrNoBody ==
    \A c \in Clients :
        Taken(c) =>
            (ServedAsStream(c) <=> (req[c].accept \/ req[c].body = NoBody))

\* C11, amended: a request is served as a stream exactly if its Accept
\* header includes text/event-stream or its HTTP method is GET, whatever its
\* body; every other request (a POST that does not advertise event-stream,
\* with or without a body) is served on the unary path.
C11_StreamIffAcceptOrGet ==
    \A c \in Clients :
        Taken(c) =>
            /\ ServedAsStream(c) <=> (req[c].accept \/ req[c].verb = "GET")
            /\ ~ServedAsStream(c) => pc[c] \in {"unary", "done"}
            /\ (~ServedAsStream(c) /\ pc[c] = "done") =>
                    http[c].media = "application/json"

C11_Witness ==
    \E c \in Clients :
        /\ Taken(c) /\ Finished(c)
        /\ req[c].verb = "GET" /\ ~req[c].accept /\ req[c].body # NoBody
        /\ ServedAsStream(c)

\* C12: on the unary transport the HTTP status is 200 for every protocol
\* success and every handled protocol failure (the -32700 parse error, the
\* -32601 unknown method), and 500 only with a -32603 error envelope.
C12_UnaryStatus ==
    \A c \in Clients :
        (Finished(c) /\ IsPost(c) /\ ~Streamed(c)) =>
            /\ http[c].status \in {200, 500}
            /\ IsSuccessEnvelope(http[c].body) => http[c].status = 200
            /\ ~JsonDecodes(req[c].body) =>
                    /\ http[c].status = 200
                    /\ IsErrorEnvelope(http[c].body)
                    /\ http[c].body.error.code = -32700
            /\ (IsEnvelope(c) /\ MethodOf(c) \notin RecognizedMethods) =>
                    /\ http[c].status = 200
                    /\ IsErrorEnvelope(http[c].body)
                    /\ http[c].body.error.code = -32601
            /\ http[c].status = 500 =>
                    /\ IsErrorEnvelope(http[c].body)
                    /\ http[c].body.error.code = -32603

\* A finished tools/call that produced a ToolResult
HasToolResult(c) ==
    Finished(c) /\ IsToolCall(c) /\ call[c] # NoCall /\ ~call[c].raised

\* C13: every ToolResult has exactly one of three shapes: read success
\* {success, data, row_count} with success true and row_count the number of
\* rows in data; write success {success, message, affected_rows} with success
\* true; failure {success, error} with success false. So error never comes
\* with data or message, and success is true exactly when error is absent.
C13_ToolResultShapes ==
    \A c \in Clients :
        HasToolResult(c) =>
            /\ Received(c).result.content[1].text = [json |-> call[c].result]
            /\ \/ /\ DOMAIN call[c].result = {"success", "data", "row_count"}
                  /\ call[c].result.success = TRUE
                  /\ call[c].result.row_count = Len(call[c].result.data)
               \/ /\ DOMAIN call[c].result = {"success", "message", "affected_rows"}
                  /\ call[c].result.success = TRUE
               \/ /\ DOMAIN call[c].result = {"success", "error"}
                  /\ call[c].result.success = FALSE
            /\ call[c].result.success <=> "error" \notin DOMAIN call[c].result

C13_Witness ==
    \E c \in Clients :
        /\ HasToolResult(c)
        /\ "data" \in DOMAIN call[c].result
        /\ call[c].result.row_count = 2
        /\ Len(call[c].result.data) = 2

\* C14: every connection that execute_query or the /health handler opens is
\* closed before the call returns, on every exit path (read success, write
\* success, a failed execute, a failed commit, a failed rollback): each call
\* closes as many connections as it opened, and no connection is open once
\* the handlers have run.
C14_ConnectionsClosed ==
    /\ openConns = 0
    /\ \A c \in Clients :
        call[c] # NoCall =>
            /\ Count(call[c].ops, "connect") <= 1
            /\ Count(call[c].ops, "conn.close") = Count(call[c].ops, "connect")
            /\ \A i \in 1..Len(call[c].ops) :
                 call[c].ops[i] = "conn.close" => i = Len(call[c].ops)

C14_Witness ==
    \E c \in Clients :
        /\ Finished(c) /\ IsToolCall(c) /\ call[c] # NoCall
        /\ Count(call[c].ops, "commit!") = 1
        /\ Count(call[c].ops, "rollback!") = 1
        /\ Count(call[c].ops, "conn.close") = 1
        /\ openConns = 0

\* C15: a failure envelope lacks the id only when the error came before the
\* id could be parsed; when the body parsed as an envelope object and the
\* fault came afterwards (params or arguments that are no mapping, a raising
\* tool call), the -32603 envelope carries the request's id (or 1), on both
\* transports.
C15_FailureKeepsId ==
    \A c \in Clients :
        (Finished(c) /\ IsPost(c) /\ IsEnvelope(c) /\ IsErrorEnvelope(Received(c))) =>
            /\ "id" \in DOMAIN Received(c)
            /\ Received(c).id =
                 (IF req[c].body.value.obj.id = Absent
                  THEN JNum(1) ELSE req[c].body.value.obj.id)

\* The tool call opened a connection, so cursor.execute was called
Executed(c) == call[c] # NoCall /\ Count(call[c].ops, "connect") = 1

ExecuteSucceeded(c) == Count(call[c].ops, "execute") = 1

\* conn.commit() was called (it may have failed)
CommitIssued(c) == Count(call[c].ops, "commit") + Count(call[c].ops, "commit!") = 1

\* The first word of the statement, whitespace stripped and upper-cased, is
\* one of the four read keywords. The two introspection tools send SELECTs.
StatementReadLike(c) ==
    \/ ToolNameOf(c) \in {JStr("postgres_list_tables"), JStr("postgres_describe_table")}
    \/ /\ ToolNameOf(c) = JStr("postgres_query")
       /\ "text" \in DOMAIN QueryOf(c)
       /\ NoSpaces(QueryOf(c).text) # <<>>
       /\ UpperTok(NoSpaces(QueryOf(c).text)[1]) \in {"SELECT", "WITH", "SHOW", "DESCRIBE"}

\* C16: execute_query calls commit exactly when the statement is write-like
\* and cursor.execute raised no error; for a read-like statement commit is
\* never called and the committed rows stay as they were, so a change made by
\* a read-like statement (a WITH that inserts) is gone with the connection.
C16_CommitIffWriteLike ==
    [][\A c \in Clients :
        (Routes(c) /\ IsToolCall(c) /\ Executed(c)') =>
            /\ CommitIssued(c)' <=> (ExecuteSucceeded(c)' /\ ~StatementReadLike(c))
            /\ StatementReadLike(c) => db' = db
            /\ Count(call'[c].ops, "commit") = 0 => db' = db
      ]_vars

C16_Witness ==
    \E c \in Clients :
        /\ Finished(c) /\ IsToolCall(c) /\ Executed(c)
        /\ ToolNameOf(c) = JStr("postgres_query")
        /\ QueryOf(c) = JText(SqlWithInsert(2))
        /\ call[c].result.success
        /\ call[c].result.data = <<[v |-> 2]>>
        /\ ~CommitIssued(c)
        /\ 2 \notin db

\* A streamed POST whose generator hit a fault other than a JSON decode
\* error: the body is JSON but no object, or the tool call raised
StreamFault(c) ==
    /\ Streamed(c) /\ IsPost(c)
    /\ pc[c] \in {"yielded", "done"}
    /\ JsonDecodes(req[c].body)
    /\ \/ ~IsMapping(req[c].body.value)
       \/ call[c] # NoCall /\ call[c].raised

\* C17: on the streamed transport a fault other than a JSON decode error
\* ends in exactly one frame, a data frame carrying a -32603 error envelope,
\* and the stream ends with it: never no frame, never a -32700 or -32601 one.
C17_StreamFaultFrame ==
    \A c \in Clients :
        StreamFault(c) =>
            /\ Len(frames[c]) = 1
            /\ frames[c][1].kind = "data"
            /\ IsErrorEnvelope(frames[c][1].payload)
            /\ frames[c][1].payload.error.code = -32603
            /\ call[c] # NoCall =>
                 frames[c][1].payload.error.message = "Internal error: " \o call[c].exc

C17_Witness ==
    \E c \in Clients :
        /\ StreamFault(c) /\ Finished(c)
        /\ call[c] # NoCall
        /\ Count(call[c].ops, "rollback!") = 1
        /\ frames[c][1].payload.error.code = -32603

\* The next step of client c's handler, whatever it is
HandlerStep(c) ==
    \/ \E env \in Envs : SsePost(c, env)
    \/ SseEnd(c)
    \/ SseCapabilities(c)
    \/ SseSleep(c)
    \/ SsePing(c)
    \/ \E env \in Envs : Unary(c, env)

InFlight(c) == pc[c] \in {"stream", "unary", "yielded", "sleep", "ping"}

\* The request state of client c
Slot(c) == <<req[c], pc[c], http[c], frames[c], sleeps[c], call[c]>>

\* C18: requests are isolated under concurrency. While a bare-GET stream is
\* in its keep-alive delay, every other request in flight can take its next
\* step (and so run to completion); every step changes the request state of
\* one client only; and the envelope a POST receives is the one the router
\* computes from that request's own body and the committed rows, for some
\* behaviour of its own connection.
C18_Isolation ==
    [][/\ \A c, d \in Clients :
            (c # d /\ BareGet(c) /\ pc[c] = "sleep" /\ InFlight(d)) =>
                ENABLED HandlerStep(d)
       /\ \A c, d \in Clients :
            (c # d /\ Slot(c)' # Slot(c)) => Slot(d)' = Slot(d)
       /\ \A c \in Clients :
            Routes(c) =>
                \E env \in Envs :
                    /\ Received(c)' =
                         (IF Streamed(c) THEN SseRoute(req[c].body, env, db)
                          ELSE UnaryRoute(req[c].body, env, db)).body
                    /\ db' =
                         (IF Streamed(c) THEN SseRoute(req[c].body, env, db)
                          ELSE UnaryRoute(req[c].body, env, db)).db
      ]_vars

C18_Witness ==
    \E c, d \in Clients :
        /\ c # d
        /\ BareGet(c) /\ pc[c] = "sleep" /\ sleeps[c] = 1
        /\ Finished(d) /\ IsToolCall(d) /\ WriteAck(d)
        /\ req[d].seq > req[c].seq
====
